---- MODULE Spec2Model ----
(***************************************************************************)
(* Lifecycle orchestration of the F' deployment template: main (Main.cpp)  *)
(* parses the command line, installs the signal handlers, and runs         *)
(* setupTopology, startSimulatedCycle and teardownTopology (Topology.cpp). *)
(* The signal handler calls stopSimulatedCycle, which clears cycleFlag     *)
(* under cycleLock.                                                        *)
(***************************************************************************)
EXTENDS Integers, Sequences, FiniteSets, TLC

\* ---------------------------------------------------------------- bounds
\* Longest command line (argv without argv[0]).
MaxArgs == 4
\* Loop iterations of startSimulatedCycle that the call log records; later
\* iterations run the same statements and leave the log as it is.
MaxTicks == 2
\* Signals delivered to the process (and explicit stop requests of a client).
MaxSignals == 2
\* Calls of teardownTopology a client of the public functions makes.
MaxTeardownCalls == 2
MaxGroups == 3
MaxCounter == 5
MaxBins == 2
MaxBufCount == 2

\* ------------------------------------------------------------- constants
NULL == "nullptr"
\* U16 of TopologyState.port / port_number.
U16Modulus == 65536
\* The template's build configurations. "TcpServer" renders the same text as
\* "TcpClient" in every file modelled here.
ComDriverTypes == {"TcpClient", "UART"}
IsTcp(t) == t \in {"TcpServer", "TcpClient"}

Range(s) == {s[i] : i \in 1..Len(s)}
SeqsUpTo(S, n) == UNION {[1..k -> S] : k \in 0..n}
Count(s, x) == Cardinality({i \in 1..Len(s) : s[i] = x})
\* The position of the first occurrence of x in s (0 when absent).
IndexOf(s, x) == IF x \in Range(s) THEN CHOOSE i \in 1..Len(s) : s[i] = x /\ \A j \in 1..(i-1) : s[j] # x ELSE 0

\* ---------------------------------------------------------------- getopt
\* optstring "hb:d:" (UART) or "hp:a:" (otherwise): the options that take a value.
OptsWithArg(t) == IF t = "UART" THEN {"-b", "-d"} ELSE {"-p", "-a"}
\* Words of a command line: the options of the build's optstring, an option
\* that is in no optstring, and three values.
Values == {"127.0.0.1", "0", "65536"}
Tokens(t) == {"-h", "-x"} \cup OptsWithArg(t) \cup Values
IsOption(tok) == tok \notin Values

\* atoi: the leading decimal digits of the word, 0 when there are none.
Atoi(tok) == CASE tok = "127.0.0.1" -> 127
               [] tok = "65536" -> 65536
               [] OTHER -> 0

\* GNU getopt skips (permutes away) the words that are not options.
RECURSIVE SkipNonOptions(_)
SkipNonOptions(args) == IF args = <<>> \/ IsOption(Head(args)) THEN args ELSE SkipNonOptions(Tail(args))

\* The option character getopt returns for an option of optstring.
OptChar(tok) == CASE tok = "-a" -> "a"
                  [] tok = "-p" -> "p"
                  [] tok = "-b" -> "b"
                  [] tok = "-d" -> "d"
                  [] OTHER -> "h"

\* One call of getopt on the words not yet scanned: the option character it
\* returns ("-1" at the end, "?" for an option that is not in optstring or that
\* lacks its value), optarg, and the words left to scan.
Getopt(t, args) ==
    LET a == SkipNonOptions(args) IN
    IF a = <<>> THEN [opt |-> "-1", optarg |-> NULL, rest |-> <<>>]
    ELSE IF Head(a) \in OptsWithArg(t)
         THEN IF Len(a) >= 2
              THEN [opt |-> OptChar(Head(a)), optarg |-> a[2], rest |-> Tail(Tail(a))]
              ELSE [opt |-> "?", optarg |-> NULL, rest |-> Tail(a)]
    ELSE IF Head(a) = "-h" THEN [opt |-> "h", optarg |-> NULL, rest |-> Tail(a)]
    ELSE [opt |-> "?", optarg |-> NULL, rest |-> Tail(a)]

\* ------------------------------------------------------------ the program
\* The phases of setupTopology, in the order of its statements.
SetupOrder_regAfterLoad == <<"initComponents", "setBaseIds", "connectComponents", "configComponents",
                "configureTopology", "loadParameters", "regCommands", "startTasks">>
SetupOrder == <<"initComponents", "setBaseIds", "connectComponents", "configComponents",
                "configureTopology", "regCommands", "loadParameters", "startTasks">>

\* The calls configureTopology makes, in the order of its statements.
ConfigureTopologyCalls_readFirst == <<"bufferManager.setup", "framer.setup", "deframer.setup",
                            "cmdSeq.allocateBuffer", "rateGroupDriver.configure",
                            "rateGroup1.configure", "rateGroup2.configure", "rateGroup3.configure",
                            "fileDownlink.configure", "prmDb.readParamFile", "prmDb.configure",
                            "health.setPingEntries", "comQueue.configure">>
ConfigureTopologyCalls == <<"bufferManager.setup", "framer.setup", "deframer.setup",
                            "cmdSeq.allocateBuffer", "rateGroupDriver.configure",
                            "rateGroup1.configure", "rateGroup2.configure", "rateGroup3.configure",
                            "fileDownlink.configure", "prmDb.configure", "prmDb.readParamFile",
                            "health.setPingEntries", "comQueue.configure">>

\* The calls of teardownTopology, in the order of its statements.
TeardownOrder_releaseFirst(t) == <<"cmdSeq.deallocateBuffer", "bufferManager.cleanup", "stopTasks", "freeThreads",
                      IF t = "UART" THEN "comDriver.quitReadThread" ELSE "comDriver.stop",
                      "comDriver.join">>
TeardownOrder(t) == <<"stopTasks", "freeThreads",
                      IF t = "UART" THEN "comDriver.quitReadThread" ELSE "comDriver.stop",
                      "comDriver.join", "cmdSeq.deallocateBuffer", "bufferManager.cleanup">>

\* The three calls of main, in the order of its statements, and the first
\* statement of each function.
MainCalls_teardownFirst == <<"setupTopology", "teardownTopology", "startSimulatedCycle">>
MainCalls == <<"setupTopology", "startSimulatedCycle", "teardownTopology">>
Entry(fn, t) == CASE fn = "setupTopology" -> SetupOrder[1]
                  [] fn = "startSimulatedCycle" -> "cycle_lock"
                  [] fn = "teardownTopology" -> TeardownOrder(t)[1]
\* Where control goes when fn returns to main: the next call, or the final
\* printf and return 0.
ReturnFrom(fn, t) == LET i == IndexOf(MainCalls, fn) IN
                     IF i < Len(MainCalls) THEN Entry(MainCalls[i + 1], t) ELSE "main_return"

\* The condition under which setupTopology configures and starts the socket driver.
TransportValid_either(st) == st.hostname # NULL \/ st.port # 0
TransportValid(st) == st.hostname # NULL /\ st.port # 0

\* The exit code of the usage branch of main's switch.
UsageExitCode_always0(opt) == 0
UsageExitCode_always1(opt) == 1
UsageExitCode(opt) == IF opt = "h" THEN 0 ELSE 1

Signals == {"SIGINT", "SIGTERM"}

\* Svc::RateGroupDriver::DividerSet rateGroupDivisorsSet
rateGroupDivisorsSet_halfPhase ==
    <<[divisor |-> 1, offset |-> 0], [divisor |-> 2, offset |-> 1], [divisor |-> 4, offset |-> 0]>>
rateGroupDivisorsSet ==
    <<[divisor |-> 1, offset |-> 0], [divisor |-> 2, offset |-> 0], [divisor |-> 4, offset |-> 0]>>

\* namespace PingEntries: the WARN and FATAL thresholds of a monitored
\* component (every namespace holds the same enum).
PingEntries_warnAboveFatal(component) ==
    IF component = "cmdSeq" THEN [WARN |-> 5, FATAL |-> 3] ELSE [WARN |-> 3, FATAL |-> 5]
PingEntries(component) == [WARN |-> 3, FATAL |-> 5]

\* The name each entry of the ping table takes its thresholds from, and the
\* name the entry carries.
PingEntryNames == <<
    <<"blockDrv", "blockDrv">>, <<"tlmSend", "chanTlm">>, <<"cmdDisp", "cmdDisp">>,
    <<"cmdSeq", "cmdSeq">>, <<"eventLogger", "eventLogger">>,
    <<"fileDownlink", "fileDownlink">>, <<"fileManager", "fileManager">>,
    <<"fileUplink", "fileUplink">>, <<"prmDb", "prmDb">>,
    <<"rateGroup1", "rateGroup1">>, <<"rateGroup2", "rateGroup2">>,
    <<"rateGroup3", "rateGroup3">> >>

\* Svc::Health::PingEntry pingEntries[]
pingEntries ==
    [i \in 1..Len(PingEntryNames) |->
        [warn |-> PingEntries(PingEntryNames[i][1]).WARN,
         fatal |-> PingEntries(PingEntryNames[i][1]).FATAL,
         name |-> PingEntryNames[i][2]]]

FW_NUM_ARRAY_ELEMENTS(a) == Len(a)
HEALTH_WATCHDOG_CODE == 291

\* The arguments of health.setPingEntries in configureTopology.
SetPingEntriesArgs ==
    [entries |-> pingEntries, count |-> FW_NUM_ARRAY_ELEMENTS(pingEntries),
     code |-> HEALTH_WATCHDOG_CODE]

VARIABLES
    com_driver_type,  \* the build configuration (cookiecutter.com_driver_type)
    argv,             \* the words of the command line getopt has not scanned yet
    option,           \* main's local: the last value getopt returned
    inputs,           \* main's locals, copied unchanged into the TopologyState
    pc,               \* the next statement of the main thread
    exitCode,         \* main's return value, -1 until it returns
    installed,        \* the signals whose handler is signalHandler
    calls,            \* the calls the main thread has made so far, oldest first
    cycleLock,        \* the thread that holds cycleLock, "none" when free
    cycleFlag,        \* the cancellation flag
    cycling,          \* startSimulatedCycle's local copy of the flag
    frames,           \* the running calls of signalHandler, oldest first
    nSignals,         \* signals delivered so far
    stopCompleted,    \* a call of stopSimulatedCycle has returned
    ticksAfterStop,   \* calls of blockDrv.callIsr made since then
    health,           \* the arguments of each call of health.setPingEntries so far
    divisors,         \* rate group driver: the divisor set it was configured with
    configuredBy,     \* rate group driver: who configured it, or the refusal
    counter,          \* rate group driver: the base ticks counted so far
    fired,            \* rate group driver: the groups each tick fired, oldest first
    bins,             \* buffer manager: the bins it was set up with
    outstanding,      \* buffer manager: per bin, the blocks acquired and not released
    lastAcquire       \* buffer manager: the last acquire or release made

\* The state of the two framework components the topology configures.
libVars == <<divisors, configuredBy, counter, fired, bins, outstanding, lastAcquire>>

vars == <<com_driver_type, argv, option, inputs, pc, exitCode, installed, calls,
          cycleLock, cycleFlag, cycling, frames, nSignals, stopCompleted, ticksAfterStop,
          health, libVars>>

Ticks == Count(calls, "blockDrv.callIsr")
\* The log records the first MaxTicks loop iterations.
LogCycle(c, call) == IF Count(c, call) < MaxTicks THEN Append(c, call) ELSE c

Alive == pc \notin {"exited", "killed", "aborted"}
\* A handler that interrupted the main thread runs on its stack: the main
\* thread continues when the handler has returned.
MainRuns == Alive /\ \A i \in 1..Len(frames) : frames[i].thread # "main"
\* The active components' threads exist from startTasks to freeThreads.
TaskThreadsExist == "startTasks" \in Range(calls) /\ "freeThreads" \notin Range(calls)
Threads == {"main"} \cup (IF TaskThreadsExist THEN {"task"} ELSE {})
\* Frame i is the innermost handler of its thread.
Innermost(i) == \A j \in (i+1)..Len(frames) : frames[j].thread # frames[i].thread
Remove(s, i) == SubSeq(s, 1, i - 1) \o SubSeq(s, i + 1, Len(s))

\* The framework components on their own are not run here.
LibIdle ==
    /\ divisors = <<>> /\ configuredBy = "none" /\ counter = 0 /\ fired = <<>>
    /\ bins = <<>> /\ outstanding = <<>>
    /\ lastAcquire = [status |-> "none", size |-> 0, bin |-> 0]

NoInputs == [hostname |-> NULL, port |-> 0, uartDevice |-> NULL, baudRate |-> 0]

Init ==
    /\ com_driver_type \in ComDriverTypes
    /\ argv \in SeqsUpTo(Tokens(com_driver_type), MaxArgs)
    /\ option = "0"
    /\ inputs = NoInputs
    /\ pc = "getopt"
    /\ exitCode = -1
    /\ installed = {}
    /\ calls = <<>>
    /\ cycleLock = "none"
    /\ cycleFlag = TRUE
    /\ cycling = FALSE
    /\ frames = <<>>
    /\ nSignals = 0
    /\ stopCompleted = FALSE
    /\ ticksAfterStop = 0
    /\ health = <<>>
    /\ LibIdle

\* ------------------------------------------------------------------- main
\* One iteration of the getopt loop: the call and the switch.
MainGetopt ==
    /\ pc = "getopt" /\ MainRuns
    /\ LET g == Getopt(com_driver_type, argv) IN
       /\ option' = g.opt
       /\ argv' = g.rest
       /\ CASE g.opt = "-1" ->
                 /\ pc' = "signal_SIGINT"
                 /\ UNCHANGED <<inputs, exitCode, calls>>
            [] g.opt = "a" ->
                 /\ inputs' = [inputs EXCEPT !.hostname = g.optarg]
                 /\ UNCHANGED <<pc, exitCode, calls>>
            [] g.opt = "p" ->
                 /\ inputs' = [inputs EXCEPT !.port = Atoi(g.optarg) % U16Modulus]
                 /\ UNCHANGED <<pc, exitCode, calls>>
            [] g.opt = "b" ->
                 /\ inputs' = [inputs EXCEPT !.baudRate = Atoi(g.optarg)]
                 /\ UNCHANGED <<pc, exitCode, calls>>
            [] g.opt = "d" ->
                 /\ inputs' = [inputs EXCEPT !.uartDevice = g.optarg]
                 /\ UNCHANGED <<pc, exitCode, calls>>
            [] OTHER ->
                 /\ calls' = Append(calls, "print_usage")
                 /\ exitCode' = UsageExitCode(g.opt)
                 /\ pc' = "exited"
                 /\ UNCHANGED inputs
    /\ UNCHANGED <<libVars, health, com_driver_type, installed, cycleLock, cycleFlag, cycling, frames,
                   nSignals, stopCompleted, ticksAfterStop>>

\* signal(SIGINT, signalHandler)
MainSignalSIGINT ==
    /\ pc = "signal_SIGINT" /\ MainRuns
    /\ installed' = installed \cup {"SIGINT"}
    /\ pc' = "signal_SIGTERM"
    /\ UNCHANGED <<libVars, health, com_driver_type, argv, option, inputs, exitCode, calls, cycleLock,
                   cycleFlag, cycling, frames, nSignals, stopCompleted, ticksAfterStop>>

\* signal(SIGTERM, signalHandler), the printf, and the call of setupTopology
MainSignalSIGTERM ==
    /\ pc = "signal_SIGTERM" /\ MainRuns
    /\ installed' = installed \cup {"SIGTERM"}
    /\ pc' = Entry(MainCalls[1], com_driver_type)
    /\ UNCHANGED <<libVars, health, com_driver_type, argv, option, inputs, exitCode, calls, cycleLock,
                   cycleFlag, cycling, frames, nSignals, stopCompleted, ticksAfterStop>>

\* printf("Exiting...") and return 0
MainReturn ==
    /\ pc = "main_return" /\ MainRuns
    /\ pc' = "exited"
    /\ exitCode' = 0
    /\ UNCHANGED <<libVars, health, com_driver_type, argv, option, inputs, installed, calls, cycleLock,
                   cycleFlag, cycling, frames, nSignals, stopCompleted, ticksAfterStop>>

\* ---------------------------------------------------------- setupTopology
\* One phase of setupTopology: the call the statement makes (configureTopology
\* with the calls it makes in turn).
SetupPhase ==
    /\ pc \in Range(SetupOrder) /\ MainRuns
    /\ calls' = calls \o <<pc>> \o (IF pc = "configureTopology" THEN ConfigureTopologyCalls ELSE <<>>)
    /\ pc' = IF IndexOf(SetupOrder, pc) < Len(SetupOrder)
             THEN SetupOrder[IndexOf(SetupOrder, pc) + 1]
             ELSE "comDriver_setup"
    /\ health' = IF pc = "configureTopology" THEN Append(health, SetPingEntriesArgs) ELSE health
    /\ UNCHANGED <<libVars, com_driver_type, argv, option, inputs, exitCode, installed, cycleLock,
                   cycleFlag, cycling, frames, nSignals, stopCompleted, ticksAfterStop>>

\* The calls of the communication driver block that ends setupTopology; opened
\* says whether comDriver.open succeeded (UART).
TransportCalls_startAfterFailure(t, st, opened) ==
    IF IsTcp(t)
    THEN IF TransportValid(st) THEN <<"comDriver.configure", "comDriver.start">> ELSE <<>>
    ELSE IF st.uartDevice # NULL
         THEN IF opened THEN <<"comDriver.open", "comDriver.start">>
                        ELSE <<"comDriver.open", "printf_open_failed", "comDriver.start">>
         ELSE <<>>
TransportCalls(t, st, opened) ==
    IF IsTcp(t)
    THEN IF TransportValid(st) THEN <<"comDriver.configure", "comDriver.start">> ELSE <<>>
    ELSE IF t = "UART"
    THEN IF st.uartDevice # NULL
         THEN IF opened THEN <<"comDriver.open", "comDriver.start">>
                        ELSE <<"comDriver.open", "printf_open_failed">>
         ELSE <<>>
    ELSE <<>>

SetupTransport ==
    /\ pc = "comDriver_setup" /\ MainRuns
    /\ \E opened \in BOOLEAN : calls' = calls \o TransportCalls(com_driver_type, inputs, opened)
    /\ pc' = ReturnFrom("setupTopology", com_driver_type)
    /\ UNCHANGED <<libVars, health, com_driver_type, argv, option, inputs, exitCode, installed, cycleLock,
                   cycleFlag, cycling, frames, nSignals, stopCompleted, ticksAfterStop>>

\* ---------------------------------------------------- startSimulatedCycle
\* cycleLock.lock(), before the loop and at the end of its body
CycleLock ==
    /\ pc = "cycle_lock" /\ MainRuns
    /\ cycleLock = "none"
    /\ cycleLock' = "main"
    /\ pc' = "cycle_read"
    /\ UNCHANGED <<libVars, health, com_driver_type, argv, option, inputs, exitCode, installed, calls,
                   cycleFlag, cycling, frames, nSignals, stopCompleted, ticksAfterStop>>

\* cycling = cycleFlag
CycleRead_doWhile ==
    /\ pc = "cycle_read" /\ MainRuns
    /\ cycling' = IF Ticks = 0 THEN TRUE ELSE cycleFlag
    /\ pc' = "cycle_unlock"
    /\ UNCHANGED <<libVars, health, com_driver_type, argv, option, inputs, exitCode, installed, calls,
                   cycleLock, cycleFlag, frames, nSignals, stopCompleted, ticksAfterStop>>
CycleRead_stale ==
    /\ pc = "cycle_read" /\ MainRuns
    /\ cycling' = IF Ticks = 0 THEN cycleFlag ELSE cycling
    /\ pc' = "cycle_unlock"
    /\ UNCHANGED <<libVars, health, com_driver_type, argv, option, inputs, exitCode, installed, calls,
                   cycleLock, cycleFlag, frames, nSignals, stopCompleted, ticksAfterStop>>
CycleRead ==
    /\ pc = "cycle_read" /\ MainRuns
    /\ cycling' = cycleFlag
    /\ pc' = "cycle_unlock"
    /\ UNCHANGED <<libVars, health, com_driver_type, argv, option, inputs, exitCode, installed, calls,
                   cycleLock, cycleFlag, frames, nSignals, stopCompleted, ticksAfterStop>>

\* cycleLock.unLock()
CycleUnlock_keepsLock ==
    /\ pc = "cycle_unlock" /\ MainRuns
    /\ cycleLock' = IF cycling THEN "main" ELSE "none"
    /\ pc' = "cycle_while"
    /\ UNCHANGED <<libVars, health, com_driver_type, argv, option, inputs, exitCode, installed, calls,
                   cycleFlag, cycling, frames, nSignals, stopCompleted, ticksAfterStop>>
CycleUnlock ==
    /\ pc = "cycle_unlock" /\ MainRuns
    /\ cycleLock' = "none"
    /\ pc' = "cycle_while"
    /\ UNCHANGED <<libVars, health, com_driver_type, argv, option, inputs, exitCode, installed, calls,
                   cycleFlag, cycling, frames, nSignals, stopCompleted, ticksAfterStop>>

\* while (cycling): into the body, or out of the function
CycleWhile ==
    /\ pc = "cycle_while" /\ MainRuns
    /\ pc' = IF cycling THEN "cycle_callIsr" ELSE ReturnFrom("startSimulatedCycle", com_driver_type)
    /\ UNCHANGED <<libVars, health, com_driver_type, argv, option, inputs, exitCode, installed, calls, cycleLock,
                   cycleFlag, cycling, frames, nSignals, stopCompleted, ticksAfterStop>>

\* blockDrv.callIsr(): one tick
CycleCallIsr ==
    /\ pc = "cycle_callIsr" /\ MainRuns
    /\ calls' = LogCycle(calls, "blockDrv.callIsr")
    /\ ticksAfterStop' = IF stopCompleted /\ ticksAfterStop < MaxTicks
                         THEN ticksAfterStop + 1 ELSE ticksAfterStop
    /\ pc' = "cycle_delay"
    /\ UNCHANGED <<libVars, health, com_driver_type, argv, option, inputs, exitCode, installed, cycleLock,
                   cycleFlag, cycling, frames, nSignals, stopCompleted>>

\* Os::Task::delay(interval)
CycleDelay_noReread ==
    /\ pc = "cycle_delay" /\ MainRuns
    /\ calls' = LogCycle(calls, "Os::Task::delay")
    /\ pc' = "cycle_while"
    /\ UNCHANGED <<libVars, health, com_driver_type, argv, option, inputs, exitCode, installed, cycleLock,
                   cycleFlag, cycling, frames, nSignals, stopCompleted, ticksAfterStop>>
CycleDelay ==
    /\ pc = "cycle_delay" /\ MainRuns
    /\ calls' = LogCycle(calls, "Os::Task::delay")
    /\ pc' = "cycle_lock"
    /\ UNCHANGED <<libVars, health, com_driver_type, argv, option, inputs, exitCode, installed, cycleLock,
                   cycleFlag, cycling, frames, nSignals, stopCompleted, ticksAfterStop>>

\* ------------------------------------------------------- teardownTopology
\* One statement of teardownTopology. freeThreads joins the components'
\* threads, which end once the handlers running on them have returned.
TeardownStep_ifStarted ==
    /\ pc \in Range(TeardownOrder(com_driver_type)) /\ MainRuns
    /\ pc = "freeThreads" => frames = <<>>
    /\ calls' = IF /\ pc \in {"comDriver.stop", "comDriver.quitReadThread", "comDriver.join"}
                   /\ "comDriver.start" \notin Range(calls)
                THEN calls ELSE Append(calls, pc)
    /\ pc' = LET order == TeardownOrder(com_driver_type) IN
             IF IndexOf(order, pc) < Len(order)
             THEN order[IndexOf(order, pc) + 1]
             ELSE ReturnFrom("teardownTopology", com_driver_type)
    /\ UNCHANGED <<libVars, health, com_driver_type, argv, option, inputs, exitCode, installed, cycleLock,
                   cycleFlag, cycling, frames, nSignals, stopCompleted, ticksAfterStop>>
TeardownStep ==
    /\ pc \in Range(TeardownOrder(com_driver_type)) /\ MainRuns
    /\ pc = "freeThreads" => frames = <<>>
    /\ calls' = Append(calls, pc)
    /\ pc' = LET order == TeardownOrder(com_driver_type) IN
             IF IndexOf(order, pc) < Len(order)
             THEN order[IndexOf(order, pc) + 1]
             ELSE ReturnFrom("teardownTopology", com_driver_type)
    /\ UNCHANGED <<libVars, health, com_driver_type, argv, option, inputs, exitCode, installed, cycleLock,
                   cycleFlag, cycling, frames, nSignals, stopCompleted, ticksAfterStop>>

\* --------------------------------------- signalHandler, stopSimulatedCycle
\* A signal reaches thread thr. Before signal() has installed the handler the
\* default disposition ends the process; afterwards signalHandler starts on
\* thr's stack, unless thr is handling the same signal (it is blocked then).
Deliver(sig, thr) ==
    /\ Alive /\ nSignals < MaxSignals
    /\ thr \in Threads
    /\ nSignals' = nSignals + 1
    /\ IF sig \in installed
       THEN /\ \A i \in 1..Len(frames) : ~(frames[i].thread = thr /\ frames[i].sig = sig)
            /\ frames' = Append(frames, [thread |-> thr, sig |-> sig, at |-> "lock"])
            /\ pc' = pc
       ELSE /\ pc' = "killed"
            /\ frames' = frames
    /\ UNCHANGED <<libVars, health, com_driver_type, argv, option, inputs, exitCode, installed, calls,
                   cycleLock, cycleFlag, cycling, stopCompleted, ticksAfterStop>>

\* cycleLock.lock() in stopSimulatedCycle: waits while another thread holds it
HandlerLock(i) ==
    /\ Alive /\ frames[i].at = "lock" /\ Innermost(i)
    /\ cycleLock = "none"
    /\ cycleLock' = frames[i].thread
    /\ frames' = [frames EXCEPT ![i].at = "write"]
    /\ UNCHANGED <<libVars, health, com_driver_type, argv, option, inputs, pc, exitCode, installed, calls,
                   cycleFlag, cycling, nSignals, stopCompleted, ticksAfterStop>>

\* cycleLock.lock() when the thread the handler interrupted holds the lock:
\* the handler waits for code that cannot run until it returns (no step), or
\* an error-checking mutex reports the relock and the assertion on the status
\* aborts the process.
HandlerRelockAbort(i) ==
    /\ Alive /\ frames[i].at = "lock" /\ Innermost(i)
    /\ cycleLock = frames[i].thread
    /\ pc' = "aborted"
    /\ UNCHANGED <<libVars, health, com_driver_type, argv, option, inputs, exitCode, installed, calls, cycleLock,
                   cycleFlag, cycling, frames, nSignals, stopCompleted, ticksAfterStop>>

\* cycleFlag = false
HandlerWrite_toggle(i) ==
    /\ Alive /\ frames[i].at = "write" /\ Innermost(i)
    /\ cycleFlag' = ~cycleFlag
    /\ frames' = [frames EXCEPT ![i].at = "unlock"]
    /\ UNCHANGED <<libVars, health, com_driver_type, argv, option, inputs, pc, exitCode, installed, calls,
                   cycleLock, cycling, nSignals, stopCompleted, ticksAfterStop>>
HandlerWrite(i) ==
    /\ Alive /\ frames[i].at = "write" /\ Innermost(i)
    /\ cycleFlag' = FALSE
    /\ frames' = [frames EXCEPT ![i].at = "unlock"]
    /\ UNCHANGED <<libVars, health, com_driver_type, argv, option, inputs, pc, exitCode, installed, calls,
                   cycleLock, cycling, nSignals, stopCompleted, ticksAfterStop>>

\* cycleLock.unLock() and the return of stopSimulatedCycle and of the handler
HandlerUnlock(i) ==
    /\ Alive /\ frames[i].at = "unlock" /\ Innermost(i)
    /\ cycleLock' = "none"
    /\ frames' = Remove(frames, i)
    /\ stopCompleted' = TRUE
    /\ UNCHANGED <<libVars, health, com_driver_type, argv, option, inputs, pc, exitCode, installed, calls,
                   cycleFlag, cycling, nSignals, ticksAfterStop>>

\* ------------------------------------------------- the rate group driver
\* The (divisor, offset) pairs a divisor set is drawn from, the valid ones and
\* the others.
DivisorChoices == {0, 1, 2, 4}
OffsetChoices == {0, 1, 2}
Dividers == [divisor : DivisorChoices, offset : OffsetChoices]
DivisorSets == SeqsUpTo(Dividers, MaxGroups) \ {<<>>}
ValidDivisorSet(set) == \A i \in 1..Len(set) : set[i].divisor >= 1 /\ set[i].offset < set[i].divisor

\* tick(counter): the indices, from 0, of the groups that fire on this base tick.
Tick(set, c) ==
    {i - 1 : i \in {j \in 1..Len(set) : (c + set[j].offset) % set[j].divisor = 0}}

\* The lifecycle is not running while a framework component is exercised.
LifecycleIdle ==
    UNCHANGED <<com_driver_type, argv, option, inputs, pc, exitCode, installed, calls,
                cycleLock, cycleFlag, cycling, frames, nSignals, stopCompleted,
                ticksAfterStop, health>>

\* rateGroupDriver.configure(rateGroupDivisorsSet) in configureTopology
DividerConfigureTopology ==
    /\ configuredBy = "none"
    /\ divisors' = rateGroupDivisorsSet
    /\ configuredBy' = "configureTopology"
    /\ UNCHANGED <<counter, fired, bins, outstanding, lastAcquire>>
    /\ LifecycleIdle

\* configure(divisor set) with any set: an invalid one is refused.
DividerConfigure(set) ==
    /\ configuredBy = "none"
    /\ IF ValidDivisorSet(set)
       THEN divisors' = set /\ configuredBy' = "client"
       ELSE divisors' = divisors /\ configuredBy' = "InvalidConfiguration"
    /\ UNCHANGED <<counter, fired, bins, outstanding, lastAcquire>>
    /\ LifecycleIdle

\* One base tick: the caller passes its counter and then increments it.
DividerTick ==
    /\ configuredBy \in {"configureTopology", "client"}
    /\ counter < MaxCounter
    /\ fired' = Append(fired, Tick(divisors, counter))
    /\ counter' = counter + 1
    /\ UNCHANGED <<divisors, configuredBy, bins, outstanding, lastAcquire>>
    /\ LifecycleIdle

\* ----------------------------------------------------- the buffer manager
BufSizes == {1, 2, 3}
Bins == [bufferSize : BufSizes, numBuffers : 0..MaxBufCount]
BinSets == SeqsUpTo(Bins, MaxBins) \ {<<>>}

\* The bins that have a free block of at least the requested size.
Fitting(b, out, size) ==
    {i \in 1..Len(b) : b[i].bufferSize >= size /\ out[i] < b[i].numBuffers}
\* The bin acquire(size) takes its block from: the smallest fitting one, the
\* first of them in the order of the set.
Chosen_anyFitting(b, out, size) ==
    CHOOSE i \in {j \in 1..Len(b) : b[j].bufferSize >= size} :
        \A j \in 1..Len(b) : b[j].bufferSize >= size =>
            (b[i].bufferSize < b[j].bufferSize \/ (b[i].bufferSize = b[j].bufferSize /\ i <= j))
Chosen(b, out, size) ==
    CHOOSE i \in Fitting(b, out, size) :
        \A j \in Fitting(b, out, size) :
            b[i].bufferSize < b[j].bufferSize \/ (b[i].bufferSize = b[j].bufferSize /\ i <= j)

\* setup(bins): the pools are partitioned, nothing is outstanding.
BufferSetup(b) ==
    /\ bins = <<>>
    /\ bins' = b
    /\ outstanding' = [i \in 1..Len(b) |-> 0]
    /\ UNCHANGED <<divisors, configuredBy, counter, fired, lastAcquire>>
    /\ LifecycleIdle

\* acquire(size)
BufferAcquire(size) ==
    /\ bins # <<>>
    /\ IF Fitting(bins, outstanding, size) = {}
       THEN /\ lastAcquire' = [status |-> "ResourceExhausted", size |-> size, bin |-> 0]
            /\ outstanding' = outstanding
       ELSE LET i == Chosen(bins, outstanding, size) IN
            /\ lastAcquire' = [status |-> "ok", size |-> size, bin |-> i]
            /\ outstanding' = [outstanding EXCEPT ![i] = @ + 1]
    /\ UNCHANGED <<divisors, configuredBy, counter, fired, bins>>
    /\ LifecycleIdle

\* release(block) of a block that came from bin i
BufferRelease(i) ==
    /\ i \in 1..Len(bins) /\ outstanding[i] > 0
    /\ outstanding' = [outstanding EXCEPT ![i] = @ - 1]
    /\ lastAcquire' = [status |-> "released", size |-> bins[i].bufferSize, bin |-> i]
    /\ UNCHANGED <<divisors, configuredBy, counter, fired, bins>>
    /\ LifecycleIdle

\* ------------------------------------------ a client of the public functions
\* The functions of the deployment namespace called by another program than
\* main: the client calls teardownTopology again after it has returned.
TeardownAgain ==
    /\ pc = "main_return" /\ MainRuns
    /\ Count(calls, "stopTasks") < MaxTeardownCalls
    /\ pc' = Entry("teardownTopology", com_driver_type)
    /\ UNCHANGED <<libVars, health, com_driver_type, argv, option, inputs, exitCode, installed, calls, cycleLock,
                   cycleFlag, cycling, frames, nSignals, stopCompleted, ticksAfterStop>>

\* The TopologyState values a client passes.
TopologyStates(t) ==
    IF t = "UART"
    THEN {[NoInputs EXCEPT !.uartDevice = d, !.baudRate = b] : d \in {NULL, "127.0.0.1"}, b \in {0, 65536}}
    ELSE {[NoInputs EXCEPT !.hostname = h, !.port = p] : h \in {NULL, "127.0.0.1"}, p \in {0, 127}}

\* --------------------------------------------------------- specifications
MainStep ==
    \/ MainGetopt \/ MainSignalSIGINT \/ MainSignalSIGTERM \/ MainReturn
    \/ SetupPhase \/ SetupTransport
    \/ CycleLock \/ CycleRead \/ CycleUnlock \/ CycleWhile \/ CycleCallIsr \/ CycleDelay
    \/ TeardownStep

HandlerStep ==
    \/ \E i \in 1..Len(frames) : HandlerLock(i)
    \/ \E i \in 1..Len(frames) : HandlerWrite(i)
    \/ \E i \in 1..Len(frames) : HandlerUnlock(i)

Next ==
    \/ MainStep
    \/ HandlerStep
    \/ \E i \in 1..Len(frames) : HandlerRelockAbort(i)
    \/ \E sig \in Signals, thr \in {"main", "task"} : Deliver(sig, thr)

Spec == Init /\ [][Next]_vars

\* The scheduler runs every thread that can run: the main thread, and the
\* handlers. Signals need not arrive, and a relock need not abort.
FairSpec == Spec /\ WF_vars(MainStep) /\ WF_vars(HandlerStep)

\* A client that has installed the handlers calls setupTopology,
\* startSimulatedCycle and teardownTopology, and teardownTopology again.
InitApi ==
    /\ com_driver_type \in ComDriverTypes
    /\ argv = <<>>
    /\ option = "-1"
    /\ inputs \in TopologyStates(com_driver_type)
    /\ pc = Entry("setupTopology", com_driver_type)
    /\ exitCode = -1
    /\ installed = Signals
    /\ calls = <<>>
    /\ cycleLock = "none"
    /\ cycleFlag = TRUE
    /\ cycling = FALSE
    /\ frames = <<>>
    /\ nSignals = 0
    /\ stopCompleted = FALSE
    /\ ticksAfterStop = 0
    /\ health = <<>>
    /\ LibIdle

NextApi ==
    \/ SetupPhase \/ SetupTransport
    \/ CycleLock \/ CycleRead \/ CycleUnlock \/ CycleWhile \/ CycleCallIsr \/ CycleDelay
    \/ TeardownStep
    \/ TeardownAgain
    \/ HandlerStep
    \/ \E i \in 1..Len(frames) : HandlerRelockAbort(i)
    \/ \E sig \in Signals, thr \in {"main", "task"} : Deliver(sig, thr)

SpecApi == InitApi /\ [][NextApi]_vars

\* ------------------------------------------------------------- positions
\* The state in which a framework component is exercised on its own.
InitFramework ==
    /\ com_driver_type = "TcpClient" /\ argv = <<>> /\ option = "0" /\ inputs = NoInputs
    /\ pc = "getopt" /\ exitCode = -1 /\ installed = {} /\ calls = <<>>
    /\ cycleLock = "none" /\ cycleFlag = TRUE /\ cycling = FALSE /\ frames = <<>>
    /\ nSignals = 0 /\ stopCompleted = FALSE /\ ticksAfterStop = 0
    /\ health = <<>>
    /\ LibIdle
\* The rate group driver on its own.
NextDivider ==
    \/ DividerConfigureTopology
    \/ \E set \in DivisorSets : DividerConfigure(set)
    \/ DividerTick
SpecDivider == InitFramework /\ [][NextDivider]_vars

\* The buffer manager on its own.
NextAllocator ==
    \/ \E b \in BinSets : BufferSetup(b)
    \/ \E size \in BufSizes : BufferAcquire(size)
    \/ \E i \in 1..MaxBins : BufferRelease(i)
SpecAllocator == InitFramework /\ [][NextAllocator]_vars

InCycle == pc \in {"cycle_lock", "cycle_read", "cycle_unlock", "cycle_while", "cycle_callIsr", "cycle_delay"}
InTeardown == pc \in {"stopTasks", "freeThreads", "comDriver.stop", "comDriver.quitReadThread",
                      "comDriver.join", "cmdSeq.deallocateBuffer", "bufferManager.cleanup"}

\* ------------------------------------------------------------ properties
IsPrefix(s, t) == Len(s) <= Len(t) /\ s = SubSeq(t, 1, Len(s))
Only(s, S) == SelectSeq(s, LAMBDA c : c \in S)

BringUpPhases == <<"initComponents", "setBaseIds", "connectComponents", "configComponents",
                   "configureTopology", "regCommands", "loadParameters", "startTasks">>
TransportStartCalls == {"comDriver.configure", "comDriver.open", "comDriver.start"}
TeardownCalls(t) == <<"stopTasks", "freeThreads",
                      IF t = "UART" THEN "comDriver.quitReadThread" ELSE "comDriver.stop",
                      "comDriver.join", "cmdSeq.deallocateBuffer", "bufferManager.cleanup">>
\* setupTopology, startSimulatedCycle, teardownTopology have returned.
MainReturned == pc = "exited" /\ option = "-1"
SetupReturned == InCycle \/ InTeardown \/ pc = "main_return" \/ MainReturned
CycleReturned == InTeardown \/ pc = "main_return" \/ MainReturned
TeardownReturned == pc = "main_return" \/ MainReturned
\* Every call of s that is in A comes before every call of s that is in B.
AllBefore(s, A, B) == LET f == Only(s, A \cup B) IN
                      \A k \in 1..(Len(f) - 1) : ~(f[k] \in B /\ f[k + 1] \in A)

\* C1: the calls setupTopology has made are at every moment the first phases
\* of initComponents, setBaseIds, connectComponents, configComponents,
\* configureTopology, regCommands, loadParameters, startTasks, each once and in
\* this order; the driver's configure/open/start come after startTasks; and
\* when setupTopology has returned all eight phases have run.
C1_SetupPhasesInOrder ==
    /\ IsPrefix(Only(calls, Range(BringUpPhases)), BringUpPhases)
    /\ AllBefore(calls, Range(BringUpPhases), TransportStartCalls)
    /\ SetupReturned => Only(calls, Range(BringUpPhases)) = BringUpPhases
C1_Witness ==
    /\ SetupReturned
    /\ "comDriver.start" \in Range(calls)
    /\ IndexOf(calls, "startTasks") < IndexOf(calls, "comDriver.configure")

\* C2: the calls teardownTopology has made are at every moment the first of
\* stopTasks, freeThreads, the driver's stop (quitReadThread for UART), the
\* driver's join, cmdSeq.deallocateBuffer, bufferManager.cleanup, each once and
\* in this order, and all six have been made when teardownTopology has returned.
C2_TeardownInOrder ==
    /\ IsPrefix(Only(calls, Range(TeardownCalls(com_driver_type))), TeardownCalls(com_driver_type))
    /\ TeardownReturned => Only(calls, Range(TeardownCalls(com_driver_type))) = TeardownCalls(com_driver_type)
C2_Witness ==
    /\ exitCode = 0 /\ option = "-1"
    /\ com_driver_type = "UART"
    /\ IndexOf(calls, "comDriver.join") = IndexOf(calls, "cmdSeq.deallocateBuffer") - 1

\* C3: in a run of main that passed argument parsing, whatever signals arrive:
\* every bring-up and teardown call is made at most once and in its order; no
\* tick or sleep comes before a call of setupTopology, and no call of
\* teardownTopology before a tick, a sleep or a call of setupTopology; the loop
\* runs only between the return of setupTopology and the first call of
\* teardownTopology, which starts only after the loop has read a cleared flag;
\* and main returns 0 only with the bring-up and the teardown complete.
C3_SetupCycleTeardownOnce ==
    LET setup == Range(BringUpPhases) \cup TransportStartCalls
        cycle == {"blockDrv.callIsr", "Os::Task::delay"}
        teardown == Range(TeardownCalls(com_driver_type))
        class(c) == IF c \in teardown THEN 3 ELSE IF c \in cycle THEN 2 ELSE 1
        setupDone == Only(calls, Range(BringUpPhases)) = BringUpPhases
        teardownMade == Only(calls, teardown)
    IN /\ IsPrefix(Only(calls, Range(BringUpPhases)), BringUpPhases)
       /\ IsPrefix(teardownMade, TeardownCalls(com_driver_type))
       /\ \A k \in 1..(Len(calls) - 1) : class(calls[k]) <= class(calls[k + 1])
       /\ InCycle => setupDone /\ teardownMade = <<>>
       /\ teardownMade # <<>> => setupDone /\ ~cycling /\ ~InCycle
       /\ (exitCode = 0 /\ option = "-1") =>
             setupDone /\ teardownMade = TeardownCalls(com_driver_type)
       /\ (exitCode = 0) => (option = "h" \/ teardownMade = TeardownCalls(com_driver_type))
C3_Witness ==
    /\ exitCode = 0 /\ option = "-1"
    /\ nSignals = MaxSignals
    /\ Ticks >= 1

\* C4: after a call of stopSimulatedCycle has returned, startSimulatedCycle
\* emits at most one more tick.
C4_AtMostOneTickAfterStop == ticksAfterStop <= 1
C4_Witness == ticksAfterStop = 1 /\ CycleReturned

\* C5: under fairness, whenever stopSimulatedCycle has been called while
\* startSimulatedCycle is running, startSimulatedCycle eventually returns.
C5_StopLeadsToReturn == (InCycle /\ frames # <<>>) ~> CycleReturned

\* C6: while startSimulatedCycle runs, no handler ever waits in
\* cycleLock.lock() for a lock that the thread it interrupted holds.
C6_HandlerNeverWaitsOnOwnThread ==
    InCycle => \A i \in 1..Len(frames) : ~(frames[i].at = "lock" /\ Innermost(i) /\ cycleLock = frames[i].thread)

\* C7: cycleFlag is true in the initial state; a step changes it only from
\* true to false, and only as the write of a running stopSimulatedCycle.
C7_FlagOneShot ==
    /\ cycleFlag = TRUE
    /\ [][cycleFlag' # cycleFlag =>
            /\ cycleFlag = TRUE /\ cycleFlag' = FALSE
            /\ \E i \in 1..Len(frames) : /\ frames[i].at = "write"
                                         /\ Len(frames') = Len(frames)
                                         /\ frames'[i].at = "unlock"]_vars
C7_Witness == cycleFlag = FALSE /\ nSignals = MaxSignals /\ frames = <<>> /\ InCycle

\* C8: calling teardownTopology twice makes no second call of the driver's
\* join, of cmdSeq.deallocateBuffer or of bufferManager.cleanup.
C8_TeardownIdempotent ==
    /\ Count(calls, "comDriver.join") <= 1
    /\ Count(calls, "cmdSeq.deallocateBuffer") <= 1
    /\ Count(calls, "bufferManager.cleanup") <= 1

\* C9: in the TCP configurations the driver's configure and start are called,
\* once setupTopology has returned, exactly when hostname is non-null and port
\* is non-zero, and never earlier under another condition; all eight bring-up
\* phases have run in their order either way.
C9_TransportIffValid ==
    IsTcp(com_driver_type) =>
        LET valid == inputs.hostname # NULL /\ inputs.port # 0 IN
        /\ "comDriver.start" \in Range(calls) => valid /\ "comDriver.configure" \in Range(calls)
        /\ "comDriver.configure" \in Range(calls) => valid
        /\ SetupReturned => /\ valid => Only(calls, TransportStartCalls) = <<"comDriver.configure", "comDriver.start">>
                            /\ Only(calls, Range(BringUpPhases)) = BringUpPhases
C9_Witness ==
    /\ IsTcp(com_driver_type) /\ SetupReturned
    /\ inputs.hostname = "127.0.0.1" /\ inputs.port = 0
    /\ "comDriver.start" \notin Range(calls)
    /\ Only(calls, Range(BringUpPhases)) = BringUpPhases

\* C10 as stated: a command line that contains -h ends main with the usage
\* text and exit code 0, and one that contains an option that is not
\* recognised ends it with exit code 1 (argv holds the words not yet scanned).
C10_Original ==
    [][(pc = "getopt" /\ pc' \in {"exited", "signal_SIGINT"}) =>
          /\ "-h" \in Range(argv) => exitCode' = 0
          /\ "-x" \in Range(argv) => exitCode' = 1]_vars

\* C10 amended: when the first option getopt meets that is not a recognised
\* option with its value is -h, main prints the usage text and exits with 0;
\* when it is an unrecognised option or an option lacking its value, main
\* prints the usage text and exits with 1; in both cases no handler is
\* installed and nothing but print_usage has been called, then or later.
C10_UsageExit ==
    /\ [](option \in {"h", "?"} =>
            /\ pc = "exited" /\ calls = <<"print_usage">> /\ installed = {}
            /\ exitCode = IF option = "h" THEN 0 ELSE 1)
    /\ [][(pc = "getopt" /\ pc' # "killed") =>
            LET a == SkipNonOptions(argv) IN
            a # <<>> =>
              /\ Head(a) = "-h" => option' = "h"
              /\ Head(a) \notin ({"-h"} \cup OptsWithArg(com_driver_type)) => option' = "?"
              /\ (Head(a) \in OptsWithArg(com_driver_type) /\ Len(a) = 1) => option' = "?"
              /\ (Head(a) \in OptsWithArg(com_driver_type) /\ Len(a) > 1) => option' \notin {"h", "?"}]_vars
C10_Witness ==
    /\ option = "h" /\ pc = "exited" /\ exitCode = 0
    /\ calls = <<"print_usage">> /\ installed = {}

\* C11 as stated, for the address (the device): a run of main whose command
\* line gave no address (no device) makes no call of setupTopology.
C11_Original ==
    (Len(calls) > 0 /\ calls[1] = "initComponents") =>
        IF IsTcp(com_driver_type) THEN inputs.hostname # NULL ELSE inputs.uartDevice # NULL

\* C11 amended: main exits with a non-zero status exactly when getopt reported
\* an unrecognised option or an option lacking its value, and then it has
\* printed the usage text and called nothing else; when getopt reaches the end
\* of the options main goes on to install the handlers whatever address, port,
\* device or baud rate it has collected, without printing the usage text.
C11_UnparseableExits ==
    /\ [](/\ option = "?" => pc = "exited" /\ exitCode = 1 /\ calls = <<"print_usage">>
          /\ exitCode \notin {-1, 0} => option = "?")
    /\ [][(pc = "getopt" /\ pc' # "killed" /\ SkipNonOptions(argv) = <<>>) =>
            /\ pc' = "signal_SIGINT" /\ exitCode' = -1
            /\ calls' = <<>> /\ inputs' = inputs]_vars
C11_Witness ==
    /\ MainReturned /\ exitCode = 0
    /\ inputs.hostname = NULL /\ inputs.uartDevice = NULL
    /\ calls[1] = "initComponents"

\* C14: in the UART configuration, once the diagnostic of a failed open has
\* been printed, the driver calls made are open and then the diagnostic, never
\* start; all eight bring-up phases have run and setupTopology has returned;
\* and main returns 0 with the six teardown calls made, as in any other run.
C14_OpenFailureNotFatal ==
    "printf_open_failed" \in Range(calls) =>
        /\ com_driver_type = "UART" /\ inputs.uartDevice # NULL
        /\ Only(calls, TransportStartCalls \cup {"printf_open_failed"})
              = <<"comDriver.open", "printf_open_failed">>
        /\ Only(calls, Range(BringUpPhases)) = BringUpPhases
        /\ Alive => SetupReturned
        /\ pc = "exited" =>
              /\ exitCode = 0
              /\ Only(calls, Range(TeardownCalls("UART"))) = TeardownCalls("UART")
C14_Witness ==
    /\ "printf_open_failed" \in Range(calls)
    /\ MainReturned /\ Ticks >= 1
    /\ "bufferManager.cleanup" \in Range(calls)

\* startSimulatedCycle has been entered and has found, or will find, the flag
\* cleared at its first read: no tick, no sleep, and the loop is not entered.
NoCycleRun ==
    /\ ~cycleFlag /\ ~cycling
    /\ Ticks = 0 /\ "Os::Task::delay" \notin Range(calls)
    /\ pc \in {"cycle_lock", "cycle_read", "cycle_unlock", "cycle_while",
               "main_return", "exited"} \/ InTeardown

\* C15: when the flag is cleared at the moment startSimulatedCycle is entered,
\* then from there on no tick is emitted and no sleep made, the loop body is
\* never entered, and startSimulatedCycle returns into teardownTopology; the
\* bring-up is complete at that moment, and main returns 0 with the teardown
\* calls made.
C15_ClearedFlagSkipsLoop ==
    /\ []((pc = "cycle_lock" /\ Ticks = 0 /\ ~cycleFlag) =>
            NoCycleRun /\ Only(calls, Range(BringUpPhases)) = BringUpPhases)
    /\ []((NoCycleRun /\ pc = "exited") =>
            /\ exitCode = 0
            /\ Only(calls, Range(TeardownCalls(com_driver_type))) = TeardownCalls(com_driver_type))
    /\ [][(NoCycleRun /\ pc' # "aborted") => NoCycleRun']_vars
    /\ [][(NoCycleRun /\ pc = "cycle_while" /\ pc' \notin {pc, "aborted"}) => pc' = "stopTasks"]_vars
C15_Witness ==
    /\ NoCycleRun /\ MainReturned /\ stopCompleted
    /\ "startTasks" \in Range(calls) /\ "bufferManager.cleanup" \in Range(calls)

\* C16: the ticks and sleeps of startSimulatedCycle alternate, tick first; a
\* tick is followed by the sleep, the sleep by lock, the read of the flag under
\* the lock, unLock and the loop test; the loop test enters the body only when
\* the read yielded true and leaves the function only when it yielded false,
\* which is the only way out of the function; a tick is emitted only while the
\* last read yielded true.
C16_TickSleepRead ==
    /\ [](LET f == Only(calls, {"blockDrv.callIsr", "Os::Task::delay"}) IN
          /\ \A k \in 1..Len(f) :
                f[k] = IF k % 2 = 1 THEN "blockDrv.callIsr" ELSE "Os::Task::delay"
          /\ pc \in {"cycle_callIsr", "cycle_delay"} => cycling
          /\ pc = "cycle_read" => cycleLock = "main"
          /\ CycleReturned => ~cycling)
    /\ [][(InCycle /\ pc' \notin {pc, "killed", "aborted"}) =>
            /\ pc = "cycle_callIsr" => pc' = "cycle_delay"
            /\ pc = "cycle_delay" => pc' = "cycle_lock"
            /\ pc = "cycle_lock" => pc' = "cycle_read"
            /\ pc = "cycle_read" => pc' = "cycle_unlock" /\ cycling' = cycleFlag
            /\ pc = "cycle_unlock" => pc' = "cycle_while"
            /\ pc = "cycle_while" => pc' = IF cycling THEN "cycle_callIsr" ELSE "stopTasks"]_vars
    /\ [][cycling' # cycling => pc = "cycle_read"]_vars
C16_Witness ==
    /\ CycleReturned /\ ~cycling
    /\ Only(calls, {"blockDrv.callIsr", "Os::Task::delay"})
          = <<"blockDrv.callIsr", "Os::Task::delay", "blockDrv.callIsr", "Os::Task::delay">>

\* The handler frames that are between lock and unLock of stopSimulatedCycle.
InStop == {i \in 1..Len(frames) : frames[i].at \in {"write", "unlock"}}

\* C17: while the process runs, the loop reads cycleFlag only with cycleLock
\* held by its thread and a handler writes it only with cycleLock held by its
\* thread; whenever cycleLock is held, exactly one context is between its lock
\* and its unLock, and no other; the loop does not hold cycleLock at its test,
\* its tick, its sleep or its lock; cycleLock is taken only by a lock
\* statement when it is free and is released only by the unLock of the context
\* that took it; the flag changes only in a write under the lock and the
\* loop's copy only in a read under the lock.
C17_LockDiscipline ==
    /\ [](Alive =>
          LET loopIn == pc \in {"cycle_read", "cycle_unlock"} IN
          /\ loopIn => cycleLock = "main" /\ InStop = {}
          /\ \A i \in InStop : /\ cycleLock = frames[i].thread
                                /\ \A j \in InStop : j = i
          /\ cycleLock # "none" => loopIn \/ InStop # {}
          /\ pc \in {"cycle_while", "cycle_callIsr", "cycle_delay", "cycle_lock"} =>
                cycleLock = "none" \/ InStop # {})
    /\ [][(cycleLock' # cycleLock /\ pc' # "aborted") =>
            \/ /\ cycleLock = "none"
               /\ \/ pc = "cycle_lock" /\ pc' = "cycle_read" /\ cycleLock' = "main"
                  \/ \E i \in 1..Len(frames) :
                        /\ frames[i].at = "lock" /\ cycleLock' = frames[i].thread
                        /\ frames' = [frames EXCEPT ![i].at = "write"]
            \/ /\ cycleLock' = "none"
               /\ \/ pc = "cycle_unlock" /\ pc' = "cycle_while" /\ cycleLock = "main"
                  \/ \E i \in InStop :
                        /\ frames[i].at = "unlock" /\ cycleLock = frames[i].thread
                        /\ frames' = Remove(frames, i)]_vars
    /\ [][cycleFlag' # cycleFlag => InStop # {} /\ cycleLock # "none"]_vars
    /\ [][cycling' # cycling => cycleLock = "main" /\ InStop = {}]_vars
C17_Witness ==
    /\ pc = "cycle_delay" /\ Ticks >= 1
    /\ \E i \in InStop : frames[i].thread = "task" /\ frames[i].at = "unlock"
    /\ cycleLock = "task" /\ ~cycleFlag

\* C18: once teardownTopology is past its stop statement the driver's stop
\* (quitReadThread for UART) has been called, and once it is past its join
\* statement the driver's join has been called, in every run: also when the
\* driver was neither configured nor opened nor started.
C18_StopJoinUnconditional ==
    LET stop == IF com_driver_type = "UART" THEN "comDriver.quitReadThread" ELSE "comDriver.stop"
        pastJoin == pc \in {"cmdSeq.deallocateBuffer", "bufferManager.cleanup", "main_return"}
                    \/ MainReturned
    IN /\ (pc = "comDriver.join" \/ pastJoin) => stop \in Range(calls)
       /\ pastJoin => "comDriver.join" \in Range(calls)
C18_Witness ==
    /\ MainReturned /\ IsTcp(com_driver_type)
    /\ inputs.hostname = "127.0.0.1" /\ inputs.port = 0
    /\ Only(calls, TransportStartCalls) = <<>>
    /\ Only(calls, {"comDriver.stop", "comDriver.join"}) = <<"comDriver.stop", "comDriver.join">>

\* C19: of connectComponents, configComponents, configureTopology,
\* prmDb.configure, prmDb.readParamFile, regCommands, loadParameters and
\* startTasks the calls made are at every moment the first ones in this order,
\* and all of them have been made when setupTopology has returned.
C19_ParametersLoadOrder ==
    LET order == <<"connectComponents", "configComponents", "configureTopology",
                   "prmDb.configure", "prmDb.readParamFile", "regCommands",
                   "loadParameters", "startTasks">>
        made == Only(calls, Range(order))
    IN /\ IsPrefix(made, order)
       /\ SetupReturned => made = order
C19_Witness ==
    /\ pc = "startTasks"
    /\ IndexOf(calls, "prmDb.configure") + 1 = IndexOf(calls, "prmDb.readParamFile")
    /\ IndexOf(calls, "prmDb.readParamFile") < IndexOf(calls, "loadParameters")
    /\ IndexOf(calls, "configComponents") < IndexOf(calls, "prmDb.configure")

\* C20: health.setPingEntries is called once configureTopology has run, and
\* in every call it was given a table of 12 entries, each with its warning
\* threshold at most its fatal threshold, and a count equal to the number of
\* entries of the table.
C20_PingTable ==
    /\ Len(health) = (IF "health.setPingEntries" \in Range(calls) THEN 1 ELSE 0)
    /\ \A c \in 1..Len(health) :
          /\ Len(health[c].entries) = 12
          /\ health[c].count = Len(health[c].entries)
          /\ \A i \in 1..Len(health[c].entries) :
                health[c].entries[i].warn <= health[c].entries[i].fatal
C20_Witness ==
    /\ Len(health) = 1 /\ health[1].count = 12
    /\ health[1].entries[12].name = "rateGroup3"
    /\ health[1].entries[4].warn = 3 /\ health[1].entries[4].fatal = 5
    /\ SetupReturned

\* The sets of groups the deployment's divisor set fires on ticks 0 to 4.
DeploymentFirings == <<{0, 1, 2}, {0}, {0, 1}, {0}, {0, 1, 2}>>

\* C12: the driver has recorded one set of groups per base tick; the set
\* recorded for tick t holds index i exactly when (t + offset_i) % divisor_i
\* is 0, for every valid divisor set it was configured with; and configured by
\* configureTopology its ticks 0, 1, 2, 3, 4 fire {0,1,2}, {0}, {0,1}, {0},
\* {0,1,2}.
C12_TickFiresByModulo ==
    /\ counter = Len(fired)
    /\ \A k \in 1..Len(fired) :
          /\ fired[k] \subseteq 0..(Len(divisors) - 1)
          /\ \A i \in 1..Len(divisors) :
                (i - 1) \in fired[k] <=> ((k - 1) + divisors[i].offset) % divisors[i].divisor = 0
    /\ configuredBy = "configureTopology" =>
          \A k \in 1..Len(fired) : k <= Len(DeploymentFirings) => fired[k] = DeploymentFirings[k]
C12_Witness ==
    /\ configuredBy = "configureTopology"
    /\ counter = 5 /\ fired = DeploymentFirings

====
